---- MODULE Spec2Model ----
(***************************************************************************)
(* A model of src/src/index.ts: the five exported functions buildHeader,   *)
(* buildOperationDocComments, getDataType, getMethodSignature and          *)
(* getReturnType, with their helpers getPrimitiveTypeName and              *)
(* prefixNamespace.  The functions are pure; the state records one call:   *)
(* which function is called, with which arguments, and its outcome (a      *)
(* returned value or a thrown Error).                                      *)
(*                                                                         *)
(* JavaScript objects are functions from the names of their own            *)
(* properties to values, so an optional property is either in the DOMAIN   *)
(* or not.  Reading a missing property yields `undefined`.                 *)
(***************************************************************************)
EXTENDS Integers, Sequences, FiniteSets, TLC

VARIABLES fn, args, result, pc

vars == <<fn, args, result, pc>>

(***************************************************************************)
(* JavaScript values                                                       *)
(***************************************************************************)

\* The value of a missing property or argument.
undefined == "<undefined>"

\* o[f] as JavaScript reads it.
Get(o, f) == IF f \in DOMAIN o THEN o[f] ELSE undefined

\* Truthiness of a value that is a string or undefined: `if (s)`, `s ? :`,
\* `s || d`, `!!s`.
ToBoolean(s) == s # undefined /\ s # ""

\* The empty object {}.
EmptyObject == [k \in {} |-> undefined]

\* An object with the property n when opt = <<v>>, without it when opt = <<>>.
Field(n, opt) == IF opt = <<>> THEN EmptyObject ELSE n :> opt[1]

\* The completion of a call: a returned value, or a thrown Error.
Return(v) == [threw |-> FALSE, value |-> v]

Throw(message) == [threw |-> TRUE, message |-> message]

(***************************************************************************)
(* JSON.stringify(property, null, 4) of a Property                         *)
(***************************************************************************)

\* The properties of a Property, in the order the interface declares them.
PropertyKeys == <<"primitive", "subType", "complex", "enum", "isArray">>

JSONvalue(property, k) ==
    IF k = "isArray"
    THEN (IF property[k] THEN "true" ELSE "false")
    ELSE "\"" \o property[k] \o "\""

RECURSIVE JSONmembers(_, _)
JSONmembers(property, keys) ==
    IF keys = <<>> THEN ""
    ELSE "\n    \"" \o Head(keys) \o "\": " \o JSONvalue(property, Head(keys))
         \o (IF Len(keys) > 1 THEN "," ELSE "\n")
         \o JSONmembers(property, Tail(keys))

JSONstringify(property) ==
    "{" \o JSONmembers(property,
                       SelectSeq(PropertyKeys, LAMBDA k : k \in DOMAIN property))
        \o "}"

(***************************************************************************)
(* getDataType, getPrimitiveTypeName, prefixNamespace                      *)
(***************************************************************************)

CannotTranslate == "Cannot translate primitive type "

CannotUnderstand == "Cannot understand type of property in definition: "

\* Mutant: the byte sub-type falls through to the default of the inner switch.
getPrimitiveTypeName_ByteAsString(property) ==
    LET primitive == Get(property, "primitive")
        subType == Get(property, "subType")
    IN  CASE primitive \in {"integer", "number"} -> Return("number")
          [] primitive = "string" ->
                CASE subType = "date-time" -> Return("Date")
                  [] OTHER -> Return("string")
          [] primitive = "boolean" -> Return("boolean")
          [] primitive \in {"file", "object"} -> Return("any")
          [] OTHER -> Throw(CannotTranslate \o JSONstringify(property))

\* Mutant: the default of the outer switch returns 'any' instead of throwing.
getPrimitiveTypeName_DefaultAny(property) ==
    LET primitive == Get(property, "primitive")
        subType == Get(property, "subType")
    IN  CASE primitive \in {"integer", "number"} -> Return("number")
          [] primitive = "string" ->
                CASE subType = "date-time" -> Return("Date")
                  [] subType = "uuid" -> Return("string")
                  [] subType = "byte" -> Return("number")
                  [] OTHER -> Return("string")
          [] primitive = "boolean" -> Return("boolean")
          [] OTHER -> Return("any")

getPrimitiveTypeName(property) ==
    LET primitive == Get(property, "primitive")
        subType == Get(property, "subType")
    IN  CASE primitive \in {"integer", "number"} -> Return("number")
          [] primitive = "string" ->
                CASE subType = "date-time" -> Return("Date")
                  [] subType = "uuid" -> Return("string")
                  [] subType = "byte" -> Return("number")
                  [] OTHER -> Return("string")
          [] primitive = "boolean" -> Return("boolean")
          [] primitive \in {"file", "object"} -> Return("any")
          [] OTHER -> Throw(CannotTranslate \o JSONstringify(property))

\* Mutant: tests `ns !== undefined` instead of the truthiness of ns.
prefixNamespace_EmptyNamespace(name, ns) ==
    IF ns # undefined THEN ns \o "." \o name ELSE name

prefixNamespace(name, ns) ==
    IF ToBoolean(ns) THEN ns \o "." \o name ELSE name

\* Mutant: the array suffix is appended in the complex and enum branches only.
getDataType_NoArrayOfPrimitive(property, ns) ==
    LET suffix == IF property.isArray THEN "[]" ELSE ""
    IN  IF ToBoolean(Get(property, "primitive"))
        THEN getPrimitiveTypeName(property)
        ELSE IF ToBoolean(Get(property, "complex"))
        THEN Return(prefixNamespace(property.complex, ns) \o suffix)
        ELSE IF ToBoolean(Get(property, "enum"))
        THEN Return(prefixNamespace(property.enum, ns) \o suffix)
        ELSE Throw(CannotUnderstand \o JSONstringify(property))

\* Mutant: complex is tested before primitive.
getDataType_ComplexFirst(property, ns) ==
    LET typeName ==
            IF ToBoolean(Get(property, "complex"))
            THEN Return(prefixNamespace(property.complex, ns))
            ELSE IF ToBoolean(Get(property, "primitive"))
            THEN getPrimitiveTypeName(property)
            ELSE IF ToBoolean(Get(property, "enum"))
            THEN Return(prefixNamespace(property.enum, ns))
            ELSE Throw(CannotUnderstand \o JSONstringify(property))
    IN  IF typeName.threw THEN typeName
        ELSE Return(IF property.isArray THEN typeName.value \o "[]"
                                        ELSE typeName.value)

getDataType(property, ns) ==
    LET typeName ==
            IF ToBoolean(Get(property, "primitive"))
            THEN getPrimitiveTypeName(property)
            ELSE IF ToBoolean(Get(property, "complex"))
            THEN Return(prefixNamespace(property.complex, ns))
            ELSE IF ToBoolean(Get(property, "enum"))
            THEN Return(prefixNamespace(property.enum, ns))
            ELSE Throw(CannotUnderstand \o JSONstringify(property))
    IN  IF typeName.threw THEN typeName
        ELSE Return(IF property.isArray THEN typeName.value \o "[]"
                                        ELSE typeName.value)

(***************************************************************************)
(* getReturnType                                                           *)
(*                                                                         *)
(* operation.responses is an object keyed by status code.  It is modelled  *)
(* as the sequence of its own properties [key, value] in the order they    *)
(* were created; the keys of one object are distinct.                      *)
(***************************************************************************)

Digit(c) ==
    CASE c = "0" -> 0 [] c = "1" -> 1 [] c = "2" -> 2 [] c = "3" -> 3
      [] c = "4" -> 4 [] c = "5" -> 5 [] c = "6" -> 6 [] c = "7" -> 7
      [] c = "8" -> 8 [] c = "9" -> 9

IsDigits(s) ==
    \A i \in 1..Len(s) :
        SubSeq(s, i, i) \in {"0", "1", "2", "3", "4", "5", "6", "7", "8", "9"}

RECURSIVE DigitsValue(_)
DigitsValue(s) ==
    IF s = "" THEN 0
    ELSE 10 * DigitsValue(SubSeq(s, 1, Len(s) - 1)) + Digit(SubSeq(s, Len(s), Len(s)))

\* A JavaScript number: <<n>>, or NaN.
NaN == <<>>

\* +statusKey, for the keys that are strings of decimal digits (leading
\* zeros allowed) and for the keys that are no numeric literal at all.
ToNumber(statusKey) ==
    IF IsDigits(statusKey) THEN <<DigitsValue(statusKey)>> ELSE NaN

\* x >= n and x < n, false when x is NaN.
GreaterOrEqual(x, n) == x # NaN /\ x[1] >= n

LessThan(x, n) == x # NaN /\ x[1] < n

\* An integer index: the canonical decimal string (no leading zero) of an
\* integer below 2^32 - 1.  Every string of at most nine digits is below it;
\* longer keys are outside the integers of the model.
IsArrayIndex(key) ==
    /\ key # "" /\ IsDigits(key)
    /\ key = "0" \/ Head(key) # "0"
    /\ Len(key) < 10

RECURSIVE Ascending(_)
Ascending(keys) ==
    IF keys = <<>> THEN <<>>
    ELSE LET least == CHOOSE k \in 1..Len(keys) :
                        \A j \in 1..Len(keys) :
                            DigitsValue(keys[k]) <= DigitsValue(keys[j])
         IN  <<keys[least]>>
               \o Ascending(SubSeq(keys, 1, least - 1) \o SubSeq(keys, least + 1, Len(keys)))

\* Mutant: the keys are visited in the order they were created.
ForInKeys_CreationOrder(responses) ==
    [i \in 1..Len(responses) |-> responses[i].key]

\* The order in which `for (const statusKey in responses)` visits the keys:
\* the integer indices in ascending numeric order, then the other string
\* keys in the order they were created.  Every key of the sequence is an own
\* property, so the hasOwnProperty test of the loop holds for each.
ForInKeys(responses) ==
    LET keys == [i \in 1..Len(responses) |-> responses[i].key]
    IN  Ascending(SelectSeq(keys, IsArrayIndex))
          \o SelectSeq(keys, LAMBDA k : ~IsArrayIndex(k))

\* responses[statusKey]
Lookup(responses, statusKey) ==
    responses[CHOOSE i \in 1..Len(responses) : responses[i].key = statusKey].value

\* options.voidType || 'void'
voidTypeOrVoid(options) ==
    IF ToBoolean(Get(options, "voidType")) THEN options.voidType ELSE "void"

\* Mutant: the return after the loop ignores options.voidType.
RECURSIVE getReturnTypeLoop_VoidLiteral(_, _, _)
getReturnTypeLoop_VoidLiteral(responses, statusKeys, options) ==
    IF statusKeys = <<>> THEN Return("void")
    ELSE LET statusKey == Head(statusKeys)
             statusCode == ToNumber(statusKey)
         IN  IF /\ GreaterOrEqual(statusCode, 200)
                /\ LessThan(statusCode, 300)
                /\ "dataType" \in DOMAIN Lookup(responses, statusKey)
             THEN getDataType(Lookup(responses, statusKey).dataType,
                              Get(options, "modelsNs"))
             ELSE getReturnTypeLoop_VoidLiteral(responses, Tail(statusKeys), options)

\* The loop of getReturnType over the keys still to visit, and the return
\* after it.
RECURSIVE getReturnTypeLoop(_, _, _)
getReturnTypeLoop(responses, statusKeys, options) ==
    IF statusKeys = <<>> THEN Return(voidTypeOrVoid(options))
    ELSE LET statusKey == Head(statusKeys)
             statusCode == ToNumber(statusKey)
         IN  IF /\ GreaterOrEqual(statusCode, 200)
                /\ LessThan(statusCode, 300)
                /\ "dataType" \in DOMAIN Lookup(responses, statusKey)
             THEN getDataType(Lookup(responses, statusKey).dataType,
                              Get(options, "modelsNs"))
             ELSE getReturnTypeLoop(responses, Tail(statusKeys), options)

getReturnType(operation, options) ==
    IF "responses" \notin DOMAIN operation
    THEN Return(voidTypeOrVoid(options))
    ELSE getReturnTypeLoop(operation.responses, ForInKeys(operation.responses),
                           options)

(***************************************************************************)
(* getMethodSignature                                                      *)
(***************************************************************************)

\* operation.parameters || []
parametersOrEmpty(operation) ==
    IF "parameters" \in DOMAIN operation THEN operation.parameters ELSE <<>>

\* Mutant: the separator is added without testing accumulate.
RECURSIVE reduceParameters_AlwaysSeparated(_, _, _)
reduceParameters_AlwaysSeparated(accumulate, parameters, options) ==
    IF parameters = <<>> THEN Return(accumulate)
    ELSE LET parameter == Head(parameters)
             dataType == getDataType(parameter.dataType, Get(options, "modelsNs"))
         IN  IF dataType.threw THEN dataType
             ELSE reduceParameters_AlwaysSeparated(
                      accumulate \o ", " \o parameter.name \o ": " \o dataType.value,
                      Tail(parameters), options)

\* (operation.parameters || []).reduce(..., accumulate) over the parameters
\* still to visit.
RECURSIVE reduceParameters(_, _, _)
reduceParameters(accumulate, parameters, options) ==
    IF parameters = <<>> THEN Return(accumulate)
    ELSE LET parameter == Head(parameters)
             separated == IF ToBoolean(accumulate) THEN accumulate \o ", "
                                                   ELSE accumulate
             dataType == getDataType(parameter.dataType, Get(options, "modelsNs"))
         IN  IF dataType.threw THEN dataType
             ELSE reduceParameters(
                      separated \o parameter.name \o ": " \o dataType.value,
                      Tail(parameters), options)

\* A returnTypeTransformer that is a function wraps the type name it is given
\* between two fixed strings.
IsFunction(options) ==
    /\ "returnTypeTransformer" \in DOMAIN options
    /\ options.returnTypeTransformer.typeof = "function"

returnTypeTransformer(options, returnType) ==
    options.returnTypeTransformer.open \o returnType
        \o options.returnTypeTransformer.close

getMethodSignature(operationName, operation, options) ==
    LET parameters == reduceParameters("", parametersOrEmpty(operation), options)
        returnType == getReturnType(operation, options)
    IN  IF parameters.threw THEN parameters
        ELSE IF returnType.threw THEN returnType
        ELSE Return(operationName \o "(" \o parameters.value \o "): "
                      \o (IF IsFunction(options)
                          THEN returnTypeTransformer(options, returnType.value)
                          ELSE returnType.value))

(***************************************************************************)
(* buildOperationDocComments                                               *)
(***************************************************************************)

\* The loop over describedParams: one line for each.
RECURSIVE describedParamLines(_)
describedParamLines(describedParams) ==
    IF describedParams = <<>> THEN Return(<<>>)
    ELSE LET describedParam == Head(describedParams)
             dataType == getDataType(describedParam.dataType, undefined)
             rest == describedParamLines(Tail(describedParams))
         IN  IF dataType.threw THEN dataType
             ELSE IF rest.threw THEN rest
             ELSE Return(<<" * @param {" \o dataType.value \o "} "
                             \o describedParam.name \o " - "
                             \o describedParam.description>> \o rest.value)

\* Mutant: the block is wrapped without testing comments.length.
buildOperationDocComments_AlwaysWrapped(operation) ==
    LET description ==
            IF ToBoolean(Get(operation, "description"))
            THEN <<" * " \o operation.description>> ELSE <<>>
        description2 ==
            IF ToBoolean(Get(operation, "description2"))
            THEN <<" * " \o operation.description2>> ELSE <<>>
        describedParams ==
            SelectSeq(parametersOrEmpty(operation),
                      LAMBDA p : ToBoolean(Get(p, "description")))
        params == describedParamLines(describedParams)
    IN  IF params.threw THEN params
        ELSE Return(<<"/**">> \o description \o description2 \o params.value
                      \o <<" */">>)

buildOperationDocComments(operation) ==
    LET description ==
            IF ToBoolean(Get(operation, "description"))
            THEN <<" * " \o operation.description>> ELSE <<>>
        description2 ==
            IF ToBoolean(Get(operation, "description2"))
            THEN <<" * " \o operation.description2>> ELSE <<>>
        describedParams ==
            SelectSeq(parametersOrEmpty(operation),
                      LAMBDA p : ToBoolean(Get(p, "description")))
        params == describedParamLines(describedParams)
        comments == description \o description2 \o params.value
    IN  IF params.threw THEN params
        ELSE IF Len(comments) > 0
        THEN Return(<<"/**">> \o comments \o <<" */">>)
        ELSE Return(comments)

(***************************************************************************)
(* buildHeader                                                             *)
(***************************************************************************)

\* An argument that should be an object and is undefined.
undefinedObject == [undefined |-> TRUE]

\* `${value}` of a string or undefined.
TemplateString(value) == IF value = undefined THEN "undefined" ELSE value

\* Mutant: the mode line is pushed without testing profile.mode.
buildHeader_ModeAlways(profile, definition) ==
    LET metadata == definition.metadata
        line(prefix, field) ==
            IF ToBoolean(Get(metadata, field))
            THEN <<prefix \o metadata[field]>> ELSE <<>>
    IN  Return(
          <<"//------------------------------",
            "// <auto-generated>",
            "//     Generated using the Swagen tool",
            "//     Generator: " \o TemplateString(Get(profile, "generator")),
            "//     Mode: " \o TemplateString(Get(profile, "mode")),
            "// </auto-generated>",
            "//------------------------------">>
          \o (IF definition # undefinedObject /\ "metadata" \in DOMAIN definition
              THEN line("// ", "title") \o line("// ", "description")
                     \o line("// Base URL: ", "baseUrl")
              ELSE <<>>))

buildHeader(profile, definition) ==
    LET metadata == definition.metadata
        line(prefix, field) ==
            IF ToBoolean(Get(metadata, field))
            THEN <<prefix \o metadata[field]>> ELSE <<>>
    IN  Return(
          <<"//------------------------------",
            "// <auto-generated>",
            "//     Generated using the Swagen tool",
            "//     Generator: " \o TemplateString(Get(profile, "generator"))>>
          \o (IF ToBoolean(Get(profile, "mode"))
              THEN <<"//     Mode: " \o profile.mode>> ELSE <<>>)
          \o <<"// </auto-generated>",
               "//------------------------------">>
          \o (IF definition # undefinedObject /\ "metadata" \in DOMAIN definition
              THEN line("// ", "title") \o line("// ", "description")
                     \o line("// Base URL: ", "baseUrl")
              ELSE <<>>))

(***************************************************************************)
(* Inputs                                                                  *)
(***************************************************************************)

\* An optional string property: missing, or one of the given strings.
Optional(strings) == {<<>>} \cup {<<s>> : s \in strings}

Primitives == {"integer", "number", "string", "boolean", "file", "object"}

SubTypes == {"date-time", "uuid", "byte"}

\* Every shape of Property: each kind field missing, empty or set, primitive
\* also set to a value outside the enumeration, subType also to one outside.
Properties ==
    { Field("primitive", p) @@ Field("subType", s) @@ Field("complex", c)
        @@ Field("enum", e) @@ Field("isArray", <<a>>) :
        p \in Optional(Primitives \cup {"", "float"}),
        s \in Optional(SubTypes \cup {"binary"}),
        c \in Optional({"", "User"}),
        e \in Optional({"", "Color"}),
        a \in BOOLEAN }

Namespaces == {undefined, "", "Models"}

\* The Property values carried by parameters and responses: a primitive, an
\* array of a complex type, an enum, and one that sets no kind.
DataTypes ==
    { [primitive |-> "integer", isArray |-> FALSE],
      [complex |-> "User", isArray |-> TRUE],
      [enum |-> "Color", isArray |-> FALSE],
      [isArray |-> FALSE] }

MaxResponses == 2

\* Status keys: integer indices inside and outside [200, 300), a 2xx code
\* written with a leading zero (a numeric string that is no integer index),
\* and a key that is no number.
StatusKeys == {"200", "201", "404", "0200", "default"}

ResponseSpecs == {EmptyObject} \cup {[dataType |-> d] : d \in DataTypes}

ResponseMaps ==
    { r \in UNION { [1..n -> [key : StatusKeys, value : ResponseSpecs]] :
                      n \in 0..MaxResponses } :
        \A i, j \in 1..Len(r) : r[i].key = r[j].key => i = j }

ReturnTypeOptions ==
    { Field("modelsNs", ns) @@ Field("voidType", v) :
        ns \in Optional({"", "Models"}), v \in Optional({"", "any"}) }

GetReturnTypeArgs ==
    { [operation |-> Field("responses", r), options |-> o] :
        r \in Optional(ResponseMaps), o \in ReturnTypeOptions }

MaxParams == 2

\* Sequences of at most n elements of S.
SeqUpTo(S, n) == UNION { [1..k -> S] : k \in 0..n }

SignatureParameters ==
    { [name |-> n, dataType |-> d] : n \in {"id", "q"}, d \in DataTypes }

\* Response objects created in ascending, in descending and in mixed key
\* order, with and without a typed 2xx response.
SignatureResponses ==
    { <<>>,
      <<[key |-> "200", value |-> [dataType |-> [complex |-> "User", isArray |-> FALSE]]],
        [key |-> "404", value |-> EmptyObject]>>,
      <<[key |-> "404", value |-> EmptyObject]>>,
      <<[key |-> "201", value |-> [dataType |-> [enum |-> "Color", isArray |-> TRUE]]],
        [key |-> "200", value |-> [dataType |-> [primitive |-> "integer", isArray |-> FALSE]]]>>,
      <<[key |-> "200", value |-> [dataType |-> [isArray |-> FALSE]]]>> }

Transformers ==
    { [typeof |-> "function", open |-> "Promise<", close |-> ">"],
      [typeof |-> "function", open |-> "", close |-> "[]"],
      [typeof |-> "string", open |-> "", close |-> ""] }

MethodSignatureOptions ==
    { Field("modelsNs", ns) @@ Field("voidType", v)
        @@ Field("returnTypeTransformer", t) :
        ns \in Optional({"Models"}), v \in Optional({"any"}),
        t \in Optional(Transformers) }

GetMethodSignatureArgs ==
    { [operationName |-> "getUser",
       operation |-> Field("parameters", p) @@ Field("responses", r),
       options |-> o] :
        p \in Optional(SeqUpTo(SignatureParameters, MaxParams)),
        r \in Optional(SignatureResponses),
        o \in MethodSignatureOptions }

DocParameters ==
    { [name |-> n, dataType |-> d] @@ Field("description", t) :
        n \in {"id", "q"},
        d \in { [primitive |-> "integer", isArray |-> FALSE],
                [complex |-> "User", isArray |-> TRUE],
                [isArray |-> FALSE] },
        t \in Optional({"", "the id"}) }

BuildOperationDocCommentsArgs ==
    { [operation |-> Field("description", d) @@ Field("description2", d2)
                       @@ Field("parameters", p)] :
        d \in Optional({"", "Gets a user"}),
        d2 \in Optional({"", "Fails when there is none"}),
        p \in Optional(SeqUpTo(DocParameters, MaxParams)) }

Metadatas ==
    { Field("title", t) @@ Field("description", d) @@ Field("baseUrl", b) :
        t \in Optional({"", "Pet store"}),
        d \in Optional({"", "An API"}),
        b \in Optional({"", "http://localhost/api"}) }

BuildHeaderArgs ==
    { [profile |-> Field("generator", g) @@ Field("mode", m), definition |-> d] :
        g \in {<<"X">>, <<"swagen-ng2">>},
        m \in Optional({"", "ng1"}),
        d \in {undefinedObject, EmptyObject} \cup {[metadata |-> md] : md \in Metadatas} }

(***************************************************************************)
(* The calls: a caller has chosen a function and its arguments (pc =       *)
(* "call"); the function runs to completion (pc = "done").                 *)
(***************************************************************************)

GetDataTypeArgs ==
    { [property |-> property, ns |-> ns] :
        property \in Properties, ns \in Namespaces }

Init ==
    /\ pc = "call"
    /\ result = Return(undefined)
    /\ \/ fn = "getDataType" /\ args \in GetDataTypeArgs
       \/ fn = "getReturnType" /\ args \in GetReturnTypeArgs
       \/ fn = "getMethodSignature" /\ args \in GetMethodSignatureArgs
       \/ fn = "buildOperationDocComments" /\ args \in BuildOperationDocCommentsArgs
       \/ fn = "buildHeader" /\ args \in BuildHeaderArgs

CallGetDataType ==
    /\ pc = "call" /\ fn = "getDataType"
    /\ result' = getDataType(args.property, args.ns)
    /\ pc' = "done"
    /\ UNCHANGED <<fn, args>>

CallGetReturnType ==
    /\ pc = "call" /\ fn = "getReturnType"
    /\ result' = getReturnType(args.operation, args.options)
    /\ pc' = "done"
    /\ UNCHANGED <<fn, args>>

CallGetMethodSignature ==
    /\ pc = "call" /\ fn = "getMethodSignature"
    /\ result' = getMethodSignature(args.operationName, args.operation, args.options)
    /\ pc' = "done"
    /\ UNCHANGED <<fn, args>>

CallBuildOperationDocComments ==
    /\ pc = "call" /\ fn = "buildOperationDocComments"
    /\ result' = buildOperationDocComments(args.operation)
    /\ pc' = "done"
    /\ UNCHANGED <<fn, args>>

CallBuildHeader ==
    /\ pc = "call" /\ fn = "buildHeader"
    /\ result' = buildHeader(args.profile, args.definition)
    /\ pc' = "done"
    /\ UNCHANGED <<fn, args>>

Next ==
    \/ CallGetDataType
    \/ CallGetReturnType
    \/ CallGetMethodSignature
    \/ CallBuildOperationDocComments
    \/ CallBuildHeader

Spec == Init /\ [][Next]_vars

(***************************************************************************)
(* Properties of getDataType                                               *)
(***************************************************************************)

\* A property of an object is set when the object has it and it is not the
\* empty string.
IsSet(o, f) == f \in DOMAIN o /\ o[f] # ""

\* The object o with the property f missing (opt = <<>>) or set to v
\* (opt = <<v>>).
With(o, f, opt) == [k \in DOMAIN o \ {f} |-> o[k]] @@ Field(f, opt)

EndsWith(s, suffix) ==
    /\ Len(s) >= Len(suffix)
    /\ SubSeq(s, Len(s) - Len(suffix) + 1, Len(s)) = suffix

GetDataTypeDone == fn = "getDataType" /\ pc = "done"

\* The table of the primitive types.
PrimitiveTable ==
    [primitive \in Primitives, subType \in SubTypes \cup {"binary", undefined} |->
        CASE primitive = "integer" -> "number"
          [] primitive = "number" -> "number"
          [] primitive = "string" /\ subType = "date-time" -> "Date"
          [] primitive = "string" /\ subType = "byte" -> "number"
          [] primitive = "string" -> "string"
          [] primitive = "boolean" -> "boolean"
          [] primitive = "file" -> "any"
          [] primitive = "object" -> "any"]

\* C1: for a Property that is no array and whose primitive is one of the six
\* recognized values, getDataType returns exactly the entry of the table for
\* (primitive, subType), for every namespace argument; the entry depends on
\* subType only when primitive is string.
C1_PrimitiveTable ==
    (/\ GetDataTypeDone
     /\ ~args.property.isArray
     /\ "primitive" \in DOMAIN args.property
     /\ args.property.primitive \in Primitives)
    => /\ result = Return(PrimitiveTable[args.property.primitive,
                                         IF "subType" \in DOMAIN args.property
                                         THEN args.property.subType ELSE undefined])
       /\ args.property.primitive # "string"
            => \A s \in SubTypes \cup {"binary", undefined} :
                 PrimitiveTable[args.property.primitive, s] = result.value

C1_Witness ==
    /\ GetDataTypeDone
    /\ args.property = [primitive |-> "string", subType |-> "byte", isArray |-> FALSE]
    /\ args.ns = "Models"
    /\ result = Return("number")

\* C2: a Property that is no array and is resolved through its complex or enum
\* name N yields exactly N when the namespace is absent or empty and
\* ns + "." + N otherwise; a Property resolved through primitive yields the
\* same outcome for every namespace argument.
C2_NamespacePrefix ==
    GetDataTypeDone =>
        LET property == args.property
            N == IF IsSet(property, "complex") THEN property.complex
                 ELSE property.enum
        IN  /\ (/\ ~property.isArray
                /\ ~IsSet(property, "primitive")
                /\ IsSet(property, "complex") \/ IsSet(property, "enum"))
               => result = Return(IF args.ns \in {undefined, ""} THEN N
                                  ELSE args.ns \o "." \o N)
            /\ IsSet(property, "primitive")
               => \A ns \in Namespaces : getDataType(property, ns) = result

C2_Witness ==
    /\ GetDataTypeDone
    /\ args.property = [enum |-> "Color", complex |-> "", isArray |-> FALSE]
    /\ args.ns = "Models"
    /\ result = Return("Models.Color")

\* C3: resolving a Property as an array gives the resolution of the same
\* Property as a non-array with "[]" appended at the very end, and fails
\* exactly when that one fails; the non-array resolution does not end in "[]".
C3_ArraySuffix ==
    GetDataTypeDone =>
        LET property == args.property
            flipped == getDataType([property EXCEPT !.isArray = ~@], args.ns)
        IN  /\ flipped.threw = result.threw
            /\ ~result.threw =>
                 IF property.isArray
                 THEN result.value = flipped.value \o "[]"
                 ELSE /\ flipped.value = result.value \o "[]"
                      /\ ~EndsWith(result.value, "[]")

C3_Witness ==
    /\ GetDataTypeDone
    /\ args.property = [complex |-> "User", isArray |-> TRUE]
    /\ args.ns = "Models"
    /\ result = Return("Models.User[]")

\* C4: getDataType throws "Cannot understand type of property" exactly when
\* none of primitive, complex, enum is set, throws "Cannot translate primitive
\* type" exactly when primitive is set to a value outside the six recognized
\* ones, and returns a type name otherwise, whatever isArray, subType and the
\* namespace are; the message ends with the serialized property.
C4_Errors ==
    GetDataTypeDone =>
        LET property == args.property
            unresolvable == /\ ~IsSet(property, "primitive")
                            /\ ~IsSet(property, "complex")
                            /\ ~IsSet(property, "enum")
            unrecognized == /\ IsSet(property, "primitive")
                            /\ property.primitive \notin Primitives
        IN  /\ unresolvable
               <=> result = Throw(CannotUnderstand \o JSONstringify(property))
            /\ unrecognized
               <=> result = Throw(CannotTranslate \o JSONstringify(property))
            /\ (~unresolvable /\ ~unrecognized)
               <=> (~result.threw /\ Len(result.value) > 0)

C4_Witness ==
    /\ GetDataTypeDone
    /\ args.property = [primitive |-> "float", complex |-> "User", isArray |-> TRUE]
    /\ args.ns = "Models"
    /\ result.threw
    /\ result.message =
         "Cannot translate primitive type {\n    \"primitive\": \"float\",\n    \"complex\": \"User\",\n    \"isArray\": true\n}"

\* Two outcomes are the same result, or the same error about their properties.
SameOutcome(r1, p1, r2, p2) ==
    \/ ~r1.threw /\ ~r2.threw /\ r1.value = r2.value
    \/ /\ r1.threw /\ r2.threw
       /\ \E text \in {CannotUnderstand, CannotTranslate} :
            /\ r1.message = text \o JSONstringify(p1)
            /\ r2.message = text \o JSONstringify(p2)

\* C10: when primitive is set, the outcome of getDataType is the same whatever
\* complex and enum are; when primitive is not set and complex is, the result
\* is built from the complex name and is the same whatever enum is; the enum
\* name is used only when neither primitive nor complex is set.
C10_Precedence ==
    GetDataTypeDone =>
        LET property == args.property
            suffix == IF property.isArray THEN "[]" ELSE ""
            prefix == IF args.ns \in {undefined, ""} THEN "" ELSE args.ns \o "."
        IN  /\ IsSet(property, "primitive") =>
                 \A c \in Optional({"", "User", "Order"}),
                    e \in Optional({"", "Color", "Size"}) :
                    LET other == With(With(property, "complex", c), "enum", e)
                    IN  SameOutcome(getDataType(other, args.ns), other,
                                    result, property)
            /\ (~IsSet(property, "primitive") /\ IsSet(property, "complex")) =>
                 /\ result = Return(prefix \o property.complex \o suffix)
                 /\ \A e \in Optional({"", "Color", "Size"}) :
                      getDataType(With(property, "enum", e), args.ns) = result
            /\ (/\ ~IsSet(property, "primitive") /\ ~IsSet(property, "complex")
                /\ IsSet(property, "enum")) =>
                 result = Return(prefix \o property.enum \o suffix)

C10_Witness ==
    /\ GetDataTypeDone
    /\ args.property = [primitive |-> "string", complex |-> "User",
                        enum |-> "Color", isArray |-> FALSE]
    /\ args.ns = "Models"
    /\ result = Return("string")

(***************************************************************************)
(* Properties of getReturnType                                             *)
(***************************************************************************)

GetReturnTypeDone == fn = "getReturnType" /\ pc = "done"

\* The i-th response created has a status in [200, 300) and a dataType.
Qualifies(responses, i) ==
    /\ IsDigits(responses[i].key)
    /\ DigitsValue(responses[i].key) \in 200..299
    /\ "dataType" \in DOMAIN responses[i].value

\* The key created i-th is enumerated before the key created j-th: integer
\* indices by ascending value, then the other keys by creation.
EnumeratedBefore(responses, i, j) ==
    LET index(k) == IsArrayIndex(responses[k].key)
    IN  \/ index(i) /\ index(j)
           /\ DigitsValue(responses[i].key) < DigitsValue(responses[j].key)
        \/ index(i) /\ ~index(j)
        \/ ~index(i) /\ ~index(j) /\ i < j

\* C5, as claimed: getReturnType returns the type of the first response, in
\* the order the keys were put into the responses map, whose status lies in
\* [200, 300) and which declares a dataType.
C5_InsertionOrder ==
    (GetReturnTypeDone /\ "responses" \in DOMAIN args.operation) =>
        LET responses == args.operation.responses
        IN  \A i \in 1..Len(responses) :
               (/\ Qualifies(responses, i)
                /\ \A j \in 1..(i - 1) : ~Qualifies(responses, j))
               => result = getDataType(responses[i].value.dataType,
                                       Get(args.options, "modelsNs"))

\* C5, amended: getReturnType returns the type of the first response, in the
\* enumeration order of the keys (integer status keys ascending, then the
\* other keys as created), whose status lies in [200, 300) and which declares
\* a dataType; no other response determines the result.
C5_EnumerationOrder ==
    (GetReturnTypeDone /\ "responses" \in DOMAIN args.operation) =>
        LET responses == args.operation.responses
        IN  \A i \in 1..Len(responses) :
               (/\ Qualifies(responses, i)
                /\ \A j \in 1..Len(responses) :
                     (j # i /\ Qualifies(responses, j))
                     => EnumeratedBefore(responses, i, j))
               => result = getDataType(responses[i].value.dataType,
                                       Get(args.options, "modelsNs"))

C5_Witness ==
    /\ GetReturnTypeDone
    /\ args.operation =
         [responses |->
            <<[key |-> "201", value |-> [dataType |-> [enum |-> "Color", isArray |-> FALSE]]],
              [key |-> "200", value |-> [dataType |-> [complex |-> "User", isArray |-> TRUE]]]>>]
    /\ args.options = [modelsNs |-> "Models"]
    /\ result = Return("Models.User[]")

\* C6: getReturnType returns options.voidType when that is supplied and 'void'
\* otherwise, both when the operation has no responses and when no response
\* has a status in [200, 300) together with a dataType.
C6_VoidDefault ==
    GetReturnTypeDone =>
        LET voidDefault == IF IsSet(args.options, "voidType")
                           THEN args.options.voidType ELSE "void"
        IN  /\ "responses" \notin DOMAIN args.operation
               => result = Return(voidDefault)
            /\ (/\ "responses" \in DOMAIN args.operation
                /\ \A i \in 1..Len(args.operation.responses) :
                     ~Qualifies(args.operation.responses, i))
               => result = Return(voidDefault)

C6_Witness ==
    /\ GetReturnTypeDone
    /\ args.operation =
         [responses |->
            <<[key |-> "404", value |-> [dataType |-> [complex |-> "User", isArray |-> TRUE]]],
              [key |-> "200", value |-> EmptyObject]>>]
    /\ args.options = [modelsNs |-> "Models", voidType |-> "any"]
    /\ result = Return("any")

(***************************************************************************)
(* Properties of getMethodSignature                                        *)
(***************************************************************************)

GetMethodSignatureDone == fn = "getMethodSignature" /\ pc = "done"

\* The first n of the strings, joined by ", ".
RECURSIVE Joined(_, _)
Joined(strings, n) ==
    IF n = 0 THEN ""
    ELSE IF n = 1 THEN strings[1]
    ELSE Joined(strings, n - 1) \o ", " \o strings[n]

\* C7: for an operation whose types all resolve, getMethodSignature returns
\* name + "(" + P + "): " + R, with P the "name: type" pairs of the parameters
\* in their order joined by ", " and R the return type, passed through the
\* returnTypeTransformer when one is supplied; the signature without the
\* transformer has the same "name(P): " and the untransformed return type.
C7_Signature ==
    GetMethodSignatureDone =>
        LET operation == args.operation
            options == args.options
            ns == IF "modelsNs" \in DOMAIN options THEN options.modelsNs
                  ELSE undefined
            parameters == IF "parameters" \in DOMAIN operation
                          THEN operation.parameters ELSE <<>>
            types == [i \in 1..Len(parameters) |->
                        getDataType(parameters[i].dataType, ns)]
            pairs == [i \in 1..Len(parameters) |->
                        parameters[i].name \o ": " \o types[i].value]
            returnType == getReturnType(operation, options)
            transformed ==
                IF /\ "returnTypeTransformer" \in DOMAIN options
                   /\ options.returnTypeTransformer.typeof = "function"
                THEN options.returnTypeTransformer.open \o returnType.value
                       \o options.returnTypeTransformer.close
                ELSE returnType.value
            head == args.operationName \o "(" \o Joined(pairs, Len(pairs)) \o "): "
        IN  ((\A i \in 1..Len(parameters) : ~types[i].threw) /\ ~returnType.threw)
            => /\ result = Return(head \o transformed)
               /\ getMethodSignature(args.operationName, operation,
                                     With(options, "returnTypeTransformer", <<>>))
                    = Return(head \o returnType.value)

C7_Witness ==
    /\ GetMethodSignatureDone
    /\ "parameters" \in DOMAIN args.operation
    /\ args.operation.parameters =
         <<[name |-> "id", dataType |-> [primitive |-> "integer", isArray |-> FALSE]],
           [name |-> "q", dataType |-> [enum |-> "Color", isArray |-> FALSE]]>>
    /\ "returnTypeTransformer" \in DOMAIN args.options
    /\ result = Return("getUser(id: number, q: Models.Color): Promise<Models.User>")

(***************************************************************************)
(* Properties of buildOperationDocComments                                 *)
(***************************************************************************)

BuildOperationDocCommentsDone == fn = "buildOperationDocComments" /\ pc = "done"

\* C8: buildOperationDocComments returns the empty sequence when the operation
\* has no description, no description2 and no described parameter, and
\* otherwise the opening line, the description line, the description2 line,
\* one line per described parameter in the order of the parameters, with its
\* type resolved without a namespace, and the closing line: b + 2 lines for
\* b lines of content.
C8_DocComments ==
    BuildOperationDocCommentsDone =>
        LET operation == args.operation
            parameters == IF "parameters" \in DOMAIN operation
                          THEN operation.parameters ELSE <<>>
            described == SelectSeq(parameters, LAMBDA q : IsSet(q, "description"))
            d1 == IF IsSet(operation, "description") THEN 1 ELSE 0
            d2 == IF IsSet(operation, "description2") THEN 1 ELSE 0
            b == d1 + d2 + Len(described)
            type(i) == getDataType(described[i].dataType, undefined)
            lines == result.value
        IN  (\A i \in 1..Len(described) : ~type(i).threw)
            => /\ ~result.threw
               /\ b = 0 => lines = <<>>
               /\ b > 0 =>
                    /\ Len(lines) = b + 2
                    /\ lines[1] = "/**"
                    /\ lines[b + 2] = " */"
                    /\ d1 = 1 => lines[2] = " * " \o operation.description
                    /\ d2 = 1 => lines[2 + d1] = " * " \o operation.description2
                    /\ \A i \in 1..Len(described) :
                         lines[1 + d1 + d2 + i] =
                           " * @param {" \o type(i).value \o "} "
                             \o described[i].name \o " - "
                             \o described[i].description

C8_Witness ==
    /\ BuildOperationDocCommentsDone
    /\ args.operation =
         [description |-> "Gets a user", description2 |-> "",
          parameters |->
            <<[name |-> "q", dataType |-> [isArray |-> FALSE]],
              [name |-> "id", description |-> "the id",
               dataType |-> [complex |-> "User", isArray |-> TRUE]]>>]
    /\ result = Return(<<"/**", " * Gets a user", " * @param {User[]} id - the id",
                         " */">>)

(***************************************************************************)
(* Properties of buildHeader                                               *)
(***************************************************************************)

BuildHeaderDone == fn = "buildHeader" /\ pc = "done"

\* The number of title, description, baseUrl that the metadata of the
\* definition sets.
MetadataLines(definition) ==
    IF definition = undefinedObject \/ "metadata" \notin DOMAIN definition THEN 0
    ELSE Cardinality({f \in {"title", "description", "baseUrl"} :
                         IsSet(definition.metadata, f)})

ModeLines(profile) == IF IsSet(profile, "mode") THEN 1 ELSE 0

\* C9, as claimed: buildHeader returns 5 lines, plus one when profile.mode is
\* present, plus one for each present field of title, description, baseUrl.
C9_FiveLines ==
    BuildHeaderDone =>
        Len(result.value) = 5 + ModeLines(args.profile) + MetadataLines(args.definition)

\* C9, amended: buildHeader returns the border, the open marker, the line
\* "Generated using the Swagen tool", the generator line, the mode line only
\* when profile.mode is present, the close marker and the border, followed by
\* one line for each present field of title, description, baseUrl in that
\* order: 6 lines, plus one for the mode, plus one per present field.
C9_SixLines ==
    BuildHeaderDone =>
        LET lines == result.value
            m == ModeLines(args.profile)
            present == SelectSeq(<<"title", "description", "baseUrl">>,
                          LAMBDA f : /\ MetadataLines(args.definition) > 0
                                     /\ IsSet(args.definition.metadata, f))
        IN  /\ ~result.threw
            /\ Len(lines) = 6 + m + MetadataLines(args.definition)
            /\ Len(present) = MetadataLines(args.definition)
            /\ lines[1] = "//------------------------------"
            /\ lines[2] = "// <auto-generated>"
            /\ lines[3] = "//     Generated using the Swagen tool"
            /\ "generator" \in DOMAIN args.profile
                 => lines[4] = "//     Generator: " \o args.profile.generator
            /\ m = 1 => lines[5] = "//     Mode: " \o args.profile.mode
            /\ lines[5 + m] = "// </auto-generated>"
            /\ lines[6 + m] = "//------------------------------"
            /\ \A i \in 1..Len(present) :
                 lines[6 + m + i] =
                   (IF present[i] = "baseUrl" THEN "// Base URL: " ELSE "// ")
                     \o args.definition.metadata[present[i]]

C9_Witness ==
    /\ BuildHeaderDone
    /\ args.profile = [generator |-> "X"]
    /\ args.definition = EmptyObject
    /\ result = Return(<<"//------------------------------",
                         "// <auto-generated>",
                         "//     Generated using the Swagen tool",
                         "//     Generator: X",
                         "// </auto-generated>",
                         "//------------------------------">>)

====
